---- MODULE Spec2Model ----
(***************************************************************************)
(* PebbleVault: the VaultManager of src/src/spacial_store/manager.rs with  *)
(* a persistence backend behind the PersistenceBackend trait.              *)
(*                                                                         *)
(* Spec     : one caller; every public operation is one atomic step.       *)
(* ConcSpec : several threads calling the &self operations, one step per   *)
(*            lock acquisition / critical section.                         *)
(* QuerySpec: one caller of the in-memory operations, query_region being   *)
(*            a step of its own.                                           *)
(* TwoVaultSpec: two Vaults of one process on distinct databases.          *)
(* SqliteSpec: the Vault on a fresh SQLite database (schema failures).     *)
(*                                                                         *)
(* Region ids and object ids stand for UUIDs; their numeric order is the   *)
(* byte order of the UUIDs.  Payloads are restricted to values whose       *)
(* equality is reflexive and that serde_json represents exactly.           *)
(***************************************************************************)
EXTENDS Integers, Sequences, FiniteSets, Bags, TLC

\* ------------------------------------------------------------------ bounds
MaxRegions == 2
MaxIds == 2
MaxObjects == 2
MaxThreads == 2
MaxFaults == 1

RegionIds == 1..MaxRegions
ObjIds == 1..MaxIds
Threads == 1..MaxThreads

\* (center, size) pairs handed to create_or_load_region
RegionShapes ==
  { [center |-> <<0, 0, 0>>, size |-> 2],
    [center |-> <<2, 2, 2>>, size |-> 2] }

\* attribute combinations handed to add_object / update_object
Variants ==
  { [object_type |-> "player", point |-> <<0, 0, 0>>, size |-> <<1, 1, 1>>,
     custom_data |-> "pa"],
    [object_type |-> "building", point |-> <<2, 2, 2>>, size |-> <<0, 0, 0>>,
     custom_data |-> "pb"] }

None == [none |-> TRUE]

VARIABLES
  open,        \* a VaultManager exists (VaultManager::new returned Ok)
  regions,     \* VaultManager.regions: region id -> [center, size]
  rtree,       \* VaultRegion.rtree: region id -> bag of SpatialObject
  poisoned,    \* region mutexes poisoned by a panic while locked
  used_ids,    \* region UUIDs handed out so far (Uuid::new_v4 never repeats)
  member,      \* history: object id -> the region it was last added or
               \* transferred to by a successful call (none once removed)
  db_regions,  \* backend table regions: id -> [center, size]
  db_points,   \* backend table points: id -> row
  files,       \* payload files: path -> document
  faults,      \* failures injected so far (backend errors, encoding errors)
  last,        \* the last call that returned (or failed to) and its result
  pc,          \* ConcSpec: thread -> position in its current call
  lock,        \* ConcSpec: region id -> holder thread (0 = free)
  targ         \* ConcSpec: thread -> arguments / locals of its current call

mem == <<open, regions, rtree, used_ids, member>>
disk == <<db_regions, db_points, files>>
conc == <<poisoned, pc, lock, targ>>
vars == <<open, regions, rtree, poisoned, used_ids, member, db_regions, db_points,
          files, faults, last, pc, lock, targ>>

\* ------------------------------------------------------------ pure helpers

\* SpatialObject { uuid, object_type, point, size, custom_data }
SpatialObject(uuid, v) ==
  [uuid |-> uuid, object_type |-> v.object_type, point |-> v.point,
   size |-> v.size, custom_data |-> v.custom_data]

\* serde_json::to_value + to_string: the payload as a JSON document
Encode(payload) == <<"json", payload>>

\* serde_json::from_str + from_value: the payload of a JSON document
Decode(doc) == doc[2]

\* "./data/<first two chars of id>/<id>"
FilePath(id) == <<"data", id>>

\* the row add_point writes for a point in a region
PointRow(obj, region_id) ==
  [point |-> obj.point, size |-> obj.size, object_type |-> obj.object_type,
   region_id |-> region_id, dataFile |-> FilePath(obj.uuid)]

\* the objects of one region's R-tree with the given uuid
WithId(r, id) == { o \in BagToSet(rtree[r]) : o.uuid = id }

\* number of objects held in memory, over all regions
RECURSIVE SumSizes(_)
SumSizes(rs) ==
  IF rs = {} THEN 0
  ELSE LET r == CHOOSE x \in rs : TRUE
       IN BagCardinality(rtree[r]) + SumSizes(rs \ {r})

TotalObjects == SumSizes(DOMAIN regions)

\* function update that also extends the domain
Put(f, k, v) == [x \in DOMAIN f \cup {k} |-> IF x = k THEN v ELSE f[x]]

Drop(f, k) == [x \in DOMAIN f \ {k} |-> f[x]]

\* ------------------------------------------------------------------- Init

Init ==
  /\ open = TRUE
  /\ regions = << >>
  /\ rtree = << >>
  /\ poisoned = {}
  /\ used_ids = {}
  /\ member = << >>
  /\ db_regions = << >>
  /\ db_points = << >>
  /\ files = << >>
  /\ faults = 0
  /\ last = [op |-> "new", result |-> "Ok"]
  /\ pc = [t \in Threads |-> "idle"]
  /\ lock = [r \in RegionIds |-> 0]
  /\ targ = [t \in Threads |-> None]

\* A run is explored up to its MaxFaults-th injected failure; after that the
\* Vault can only be closed and opened again.
Ready == open /\ faults < MaxFaults

MayFail(fail) == fail = "none" \/ faults < MaxFaults

Count(fail) == faults' = IF fail = "none" THEN faults ELSE faults + 1

\* A call that never returns (blocked for ever) or that panics ends the single
\* caller: the stack unwinds or the process is killed, and the VaultManager
\* is gone until a new one is opened on the same backend.
VaultLost ==
  /\ open' = FALSE
  /\ regions' = << >>
  /\ rtree' = << >>
  /\ member' = << >>
  /\ UNCHANGED used_ids

\* ------------------------------------------------- create_or_load_region

Result(op, res) == [op |-> op, result |-> res]

\* Uuid::new_v4(): a UUID no region has had.  UUIDs are only compared, so the
\* model hands them out in sequence.
new_v4 == Cardinality(used_ids) + 1

\* a lookup that never finds a region (used to test C18_SecondCreate)
find_region_none(shape) == {}

\* self.regions.values().find(..): the regions with this center and size
find_region(shape) == { r \in DOMAIN regions : regions[r] = shape }

\* Ok(region_id)
Created(region_id) ==
  [op |-> "create_or_load_region", result |-> "Ok", id |-> region_id]

\* a create_or_load_region that keeps a new region in memory only (used to
\* test C19_RegionPersisted)
CreateOrLoadRegion_unsaved(shape, fail) ==
  /\ Ready
  /\ fail = "none"
  /\ IF find_region(shape) # {}
     THEN /\ \E r \in find_region(shape) : last' = Created(r)
          /\ UNCHANGED mem
     ELSE /\ new_v4 \in RegionIds
          /\ used_ids' = used_ids \cup {new_v4}
          /\ regions' = Put(regions, new_v4, shape)
          /\ rtree' = Put(rtree, new_v4, EmptyBag)
          /\ last' = Created(new_v4)
          /\ UNCHANGED <<open, member>>
  /\ UNCHANGED <<disk, faults, conc>>

\* fail: "none" | "sql" (create_region returns an error)
CreateOrLoadRegion(shape, fail) ==
  /\ Ready
  /\ LET same == find_region(shape)
     IN IF same # {}
        THEN /\ fail = "none"
             /\ \E r \in same : last' = Created(r)
             /\ UNCHANGED <<mem, disk, faults>>
        ELSE /\ new_v4 \in RegionIds
             /\ MayFail(fail)
             /\ Count(fail)
             /\ used_ids' = used_ids \cup {new_v4}
             /\ regions' = Put(regions, new_v4, shape)
             /\ rtree' = Put(rtree, new_v4, EmptyBag)
             /\ IF fail = "none"
                THEN /\ db_regions' = Put(db_regions, new_v4, shape)
                     /\ last' = Created(new_v4)
                ELSE /\ db_regions' = db_regions
                     /\ last' = Result("create_or_load_region", "BackendError")
             /\ UNCHANGED <<open, member, db_points, files>>
  /\ UNCHANGED conc

\* ------------------------------------------------------ backend (points)

\* add_point that empties the table before it inserts (used to test
\* C13_ConcurrentAdds)
add_point_alone(rows, fs, obj, region_id, fail) ==
  [rows |-> Put(<< >>, obj.uuid, PointRow(obj, region_id)),
   files |-> Put(fs, FilePath(obj.uuid), Encode(obj.custom_data)),
   ok |-> fail = "none"]

\* add_point with INSERT OR IGNORE in place of INSERT OR REPLACE: the row of
\* an id that is already stored is kept (used to test C2_WriteThrough)
add_point_ignore(rows, fs, obj, region_id, fail) ==
  [rows |-> IF obj.uuid \in DOMAIN rows THEN rows
            ELSE Put(rows, obj.uuid, PointRow(obj, region_id)),
   files |-> Put(fs, FilePath(obj.uuid), Encode(obj.custom_data)),
   ok |-> fail = "none"]

\* add_point: serialize the document, create the directory, write the file,
\* then INSERT OR REPLACE the row.  fail names the step that fails:
\* "none" | "file" (create_dir_all fails: nothing written) | "write" (fs::write
\* fails: the file is left truncated) | "sql" (file written, row not).
\* Result: [rows, files, ok].
add_point(rows, fs, obj, region_id, fail) ==
  LET path == FilePath(obj.uuid)
  IN CASE fail = "file" -> [rows |-> rows, files |-> fs, ok |-> FALSE]
       [] fail = "write" ->
            [rows |-> rows, files |-> Put(fs, path, <<"truncated">>), ok |-> FALSE]
       [] fail = "sql" ->
            [rows |-> rows, files |-> Put(fs, path, Encode(obj.custom_data)),
             ok |-> FALSE]
       [] OTHER ->
            [rows |-> Put(rows, obj.uuid, PointRow(obj, region_id)),
             files |-> Put(fs, path, Encode(obj.custom_data)), ok |-> TRUE]

\* remove_point: DELETE FROM points WHERE id = ?; the payload file stays
remove_point(rows, id) == Drop(rows, id)

\* get_points_in_region: the rows of a region, each with its payload read
\* from its file; it fails when a file is missing or does not parse
RegionRows(region_id) ==
  { id \in DOMAIN db_points : db_points[id].region_id = region_id }

RowReadable(id) ==
  /\ db_points[id].dataFile \in DOMAIN files
  /\ files[db_points[id].dataFile][1] = "json"

LoadedObject(id) ==
  [uuid |-> id, object_type |-> db_points[id].object_type,
   point |-> db_points[id].point, size |-> db_points[id].size,
   custom_data |-> Decode(files[db_points[id].dataFile])]

\* get_points_in_region without its WHERE clause (used to test
\* C14_RecoveredState)
get_points_anywhere(region_id) ==
  SetToBag({ LoadedObject(id) : id \in DOMAIN db_points })

get_points_in_region(region_id) ==
  SetToBag({ LoadedObject(id) : id \in RegionRows(region_id) })

\* ------------------------------------------------------------- add_object

AddFails == {"none", "encode", "file", "write", "sql"}

\* does any region hold an object with this uuid
Exists(uuid) == \E r \in DOMAIN regions : WithId(r, uuid) # {}

AddObject(region_id, uuid, v, fail) ==
  /\ Ready
  /\ LET obj == SpatialObject(uuid, v)
     IN IF region_id \notin DOMAIN regions
        THEN /\ fail = "none"
             /\ last' = Result("add_object", "RegionNotFound")
             /\ UNCHANGED <<mem, disk, faults>>
        ELSE /\ TotalObjects < MaxObjects
             /\ MayFail(fail)
             /\ Count(fail)
             /\ rtree' = [rtree EXCEPT ![region_id] = @ (+) SetToBag({obj})]
             /\ member' = IF fail = "none" THEN Put(member, uuid, region_id)
                           ELSE member
             /\ IF fail = "encode"
                THEN /\ last' = Result("add_object", "PayloadEncoding")
                     /\ UNCHANGED disk
                ELSE LET w == add_point(db_points, files, obj, region_id, fail)
                     IN /\ db_points' = w.rows
                        /\ files' = w.files
                        /\ last' = Result("add_object",
                                          IF w.ok THEN "Ok" ELSE "BackendError")
                        /\ UNCHANGED db_regions
             /\ UNCHANGED <<open, regions, used_ids>>
  /\ UNCHANGED conc

\* ----------------------------------------------------------- query_region

Min(a, b) == IF a <= b THEN a ELSE b
Max(a, b) == IF a >= b THEN a ELSE b

\* AABB::from_corners: the box spanned by two corners, in either order
from_corners(p1, p2) ==
  [lower |-> [i \in 1..3 |-> Min(p1[i], p2[i])],
   upper |-> [i \in 1..3 |-> Max(p1[i], p2[i])]]

\* SpatialObject::envelope is the point itself; locate_in_envelope returns the
\* objects whose envelope lies inside the query box
InEnvelope(obj, box) ==
  \A i \in 1..3 : box.lower[i] <= obj.point[i] /\ obj.point[i] <= box.upper[i]

\* the bag of objects the query returns
query_region(region_id, min, max) ==
  LET box == from_corners(min, max)
      hit == { o \in BagToSet(rtree[region_id]) : InEnvelope(o, box) }
  IN [o \in hit |-> rtree[region_id][o]]

\* ------------------------------------------------------------- get_object

\* the objects get_object may return: the first match in the first region,
\* in the HashMap's iteration order, that holds the id
get_object(id) == UNION { WithId(r, id) : r \in DOMAIN regions }

\* -------------------------------------------------------- transfer_player

\* a transfer that leaves the object where it was (used to test
\* C9_TransferEffect)
updated_player_in_place(player, center) == player

\* the transferred object: at the destination's center, the rest preserved
updated_player(player, center) ==
  [uuid |-> player.uuid, object_type |-> player.object_type,
   point |-> center, size |-> player.size, custom_data |-> player.custom_data]

\* a transfer that looks the destination up only after it has taken the
\* object out of the source (used to test C25_UnknownRegion)
TransferPlayer_late_lookup(player_uuid, from_id, to_id) ==
  /\ Ready
  /\ IF from_id \notin DOMAIN regions
     THEN /\ last' = Result("transfer_player", "RegionNotFound")
          /\ UNCHANGED mem
     ELSE IF WithId(from_id, player_uuid) = {}
     THEN /\ last' = Result("transfer_player", "ObjectNotFound")
          /\ UNCHANGED mem
     ELSE \E player \in WithId(from_id, player_uuid) :
            /\ IF to_id \in DOMAIN regions
               THEN /\ rtree' = [rtree EXCEPT
                                   ![from_id] = @ (-) SetToBag({player}),
                                   ![to_id] = (IF to_id = from_id
                                               THEN @ (-) SetToBag({player})
                                               ELSE @) (+) SetToBag(
                                       {updated_player(player, regions[to_id].center)})]
                    /\ member' = Put(member, player_uuid, to_id)
                    /\ last' = Result("transfer_player", "Ok")
               ELSE /\ rtree' = [rtree EXCEPT ![from_id] = @ (-) SetToBag({player})]
                    /\ member' = member
                    /\ last' = Result("transfer_player", "RegionNotFound")
            /\ UNCHANGED <<open, regions, used_ids>>
  /\ UNCHANGED <<disk, faults, conc>>

TransferPlayer(player_uuid, from_id, to_id) ==
  /\ Ready
  /\ IF from_id \notin DOMAIN regions \/ to_id \notin DOMAIN regions
     THEN /\ last' = Result("transfer_player", "RegionNotFound")
          /\ UNCHANGED mem
     ELSE IF to_id = from_id
     THEN \* the second lock() of a mutex this thread already holds never
          \* returns: it blocks for ever or panics
          /\ \E res \in {"Blocked", "Panic"} :
               last' = Result("transfer_player", res)
          /\ VaultLost
     ELSE IF WithId(from_id, player_uuid) = {}
     THEN /\ last' = Result("transfer_player", "ObjectNotFound")
          /\ UNCHANGED mem
     ELSE \E player \in WithId(from_id, player_uuid) :
            /\ rtree' = [rtree EXCEPT
                           ![from_id] = @ (-) SetToBag({player}),
                           ![to_id] = @ (+) SetToBag(
                                        {updated_player(player, regions[to_id].center)})]
            /\ member' = Put(member, player_uuid, to_id)
            /\ last' = Result("transfer_player", "Ok")
            /\ UNCHANGED <<open, regions, used_ids>>
  /\ UNCHANGED <<disk, faults, conc>>

\* -------------------------------------------------------- persist_to_disk

\* the (region, object) pairs persist_to_disk visits
PersistPairs ==
  { p \in (DOMAIN regions) \X (UNION { BagToSet(rtree[r]) : r \in DOMAIN regions }) :
      BagIn(p[2], rtree[p[1]]) }

\* the orders in which the two nested loops can visit them: the HashMap
\* yields the regions in some order, each R-tree its objects in some order
PersistOrders ==
  { s \in [1..TotalObjects -> PersistPairs] :
      /\ \A p \in PersistPairs :
           Cardinality({ i \in 1..TotalObjects : s[i] = p }) = CopiesIn(p[2], rtree[p[1]])
      /\ \A i, j, k \in 1..TotalObjects :
           (i < j /\ j < k /\ s[i][1] = s[k][1]) => s[j][1] = s[i][1] }

\* the backend after clear_all_points and the first n writes of an order
RECURSIVE WriteAll(_, _)
WriteAll(s, n) ==
  IF n = 0 THEN [rows |-> << >>, files |-> files, ok |-> TRUE]
  ELSE LET before == WriteAll(s, n - 1)
       IN add_point(before.rows, before.files, s[n][2], s[n][1], "none")

\* a persist_to_disk whose clearing step empties the regions table as well
\* (used to test C31_PersistFrame)
PersistToDisk_clear_regions(s, k, fail) ==
  /\ Ready
  /\ fail = "none"
  /\ k = 0
  /\ TotalObjects > 0
  /\ LET w == WriteAll(s, TotalObjects)
     IN /\ db_points' = w.rows
        /\ files' = w.files
  /\ db_regions' = << >>
  /\ last' = Result("persist_to_disk", "Ok")
  /\ UNCHANGED <<mem, faults, conc>>

PersistFails == {"none", "clear", "encode", "file", "write", "sql"}

\* fail: "none" | "clear" | the step of the (k+1)-th write that fails
PersistToDisk(s, k, fail) ==
  /\ Ready
  /\ MayFail(fail)
  /\ Count(fail)
  /\ IF fail = "clear"
     THEN /\ k = 0
          /\ last' = Result("persist_to_disk", "BackendError")
          /\ UNCHANGED <<mem, disk>>
     ELSE IF fail = "none"
     THEN /\ k = 0
          /\ LET w == WriteAll(s, TotalObjects)
             IN /\ db_points' = w.rows
                /\ files' = w.files
                /\ UNCHANGED db_regions
          \* duration / total_points as u32 panics when there are no points
          /\ IF TotalObjects = 0
             THEN /\ last' = Result("persist_to_disk", "Panic")
                  /\ VaultLost
             ELSE /\ last' = Result("persist_to_disk", "Ok")
                  /\ UNCHANGED mem
     ELSE /\ k < TotalObjects
          /\ LET before == WriteAll(s, k)
                 w == IF fail = "encode"
                      THEN before
                      ELSE add_point(before.rows, before.files,
                                     s[k + 1][2], s[k + 1][1], fail)
             IN /\ db_points' = w.rows
                /\ files' = w.files
                /\ UNCHANGED db_regions
          /\ last' = Result("persist_to_disk",
                            IF fail = "encode" THEN "PayloadEncoding"
                            ELSE "BackendError")
          /\ UNCHANGED mem
  /\ UNCHANGED conc

\* ---------------------------------------------------------- remove_object

\* The loop visits the regions in the HashMap's order and stops at the
\* first one that holds the id: the R-trees it can leave behind
removals(object_id) ==
  UNION { { [rtree EXCEPT ![r] = @ (-) SetToBag({obj})] : obj \in WithId(r, object_id) } :
            r \in DOMAIN regions }

\* a remove_object that reports success for an id it did not find and
\* deletes the id's row (used to test C20_RemoveUnknown)
RemoveObject_silent(object_id, fail) ==
  /\ Ready
  /\ fail = "none"
  /\ IF Exists(object_id)
     THEN /\ rtree' \in removals(object_id)
          /\ member' = Drop(member, object_id)
     ELSE UNCHANGED <<rtree, member>>
  /\ db_points' = remove_point(db_points, object_id)
  /\ last' = Result("remove_object", "Ok")
  /\ UNCHANGED <<open, regions, used_ids, db_regions, files, faults, conc>>

RemoveObject(object_id, fail) ==
  /\ Ready
  /\ IF ~Exists(object_id)
     THEN /\ fail = "none"
          /\ last' = Result("remove_object", "ObjectNotFound")
          /\ UNCHANGED <<mem, disk, faults>>
     ELSE /\ MayFail(fail)
          /\ Count(fail)
          /\ rtree' \in removals(object_id)
          /\ IF fail = "none"
             THEN /\ db_points' = remove_point(db_points, object_id)
                  /\ member' = Drop(member, object_id)
                  /\ last' = Result("remove_object", "Ok")
             ELSE /\ db_points' = db_points
                  /\ member' = member
                  /\ last' = Result("remove_object", "BackendError")
          /\ UNCHANGED <<open, regions, used_ids, db_regions, files>>
  /\ UNCHANGED conc

\* ---------------------------------------------------------- update_object

\* an update_object that also rewrites the object's row and payload file
\* (used to test C30_MemoryOnly)
UpdateObject_write_through(object) ==
  /\ Ready
  /\ IF ~Exists(object.uuid)
     THEN /\ last' = Result("update_object", "ObjectNotFound")
          /\ UNCHANGED <<mem, disk>>
     ELSE /\ \E r \in DOMAIN regions : \E existing \in WithId(r, object.uuid) :
               /\ rtree' = [rtree EXCEPT
                              ![r] = (@ (-) SetToBag({existing})) (+) SetToBag({object})]
               /\ LET w == add_point(db_points, files, object, r, "none")
                  IN db_points' = w.rows /\ files' = w.files
          /\ last' = Result("update_object", "Ok")
          /\ UNCHANGED <<open, regions, used_ids, member, db_regions>>
  /\ UNCHANGED <<faults, conc>>

UpdateObject(object) ==
  /\ Ready
  /\ IF ~Exists(object.uuid)
     THEN /\ last' = Result("update_object", "ObjectNotFound")
          /\ UNCHANGED mem
     ELSE /\ \E r \in DOMAIN regions : \E existing \in WithId(r, object.uuid) :
               rtree' = [rtree EXCEPT
                           ![r] = (@ (-) SetToBag({existing})) (+) SetToBag({object})]
          /\ last' = Result("update_object", "Ok")
          /\ UNCHANGED <<open, regions, used_ids, member>>
  /\ UNCHANGED <<disk, faults, conc>>

\* ------------------------------------- VaultManager::new (close and reopen)

\* load_regions_from_db fails when a row of a stored region is unreadable
Unreadable ==
  \E id \in DOMAIN db_points :
    db_points[id].region_id \in DOMAIN db_regions /\ ~RowReadable(id)

\* a recovery that leaves out the rows it cannot read (used to test
\* C15_RecoveryFails)
Reopen_skipping(fail) ==
  /\ MayFail(fail)
  /\ Count(fail)
  /\ open' = TRUE
  /\ regions' = db_regions
  /\ rtree' = [r \in DOMAIN db_regions |->
                 SetToBag({ LoadedObject(id) :
                              id \in { i \in RegionRows(r) : RowReadable(i) } })]
  /\ member' = [id \in { i \in DOMAIN db_points :
                            db_points[i].region_id \in DOMAIN db_regions
                            /\ RowReadable(i) }
                  |-> db_points[id].region_id]
  /\ last' = Result("new", "Ok")
  /\ UNCHANGED <<used_ids, disk, conc>>

\* fail: "none" | "sql" (create_table, get_all_regions or
\* get_points_in_region returns an error)
Reopen(fail) ==
  /\ MayFail(fail)
  /\ Count(fail)
  /\ IF fail # "none" \/ Unreadable
     THEN /\ open' = FALSE
          /\ regions' = << >>
          /\ rtree' = << >>
          /\ member' = << >>
          /\ last' = Result("new", "RecoveryError")
     ELSE /\ open' = TRUE
          /\ regions' = db_regions
          /\ rtree' = [r \in DOMAIN db_regions |-> get_points_in_region(r)]
          /\ member' = [id \in UNION { RegionRows(r) : r \in DOMAIN db_regions }
                          |-> db_points[id].region_id]
          /\ last' = Result("new", "Ok")
  /\ UNCHANGED <<used_ids, disk, conc>>

\* ------------------------------------------------------------------- Spec

Next ==
  \/ \E shape \in RegionShapes, fail \in {"none", "sql"} :
       CreateOrLoadRegion(shape, fail)
  \/ \E r \in RegionIds, id \in ObjIds, v \in Variants, fail \in AddFails :
       AddObject(r, id, v, fail)
  \/ \E id \in ObjIds, from \in RegionIds, to \in RegionIds :
       TransferPlayer(id, from, to)
  \/ \E s \in PersistOrders, k \in 0..MaxObjects, fail \in PersistFails :
       PersistToDisk(s, k, fail)
  \/ \E id \in ObjIds, fail \in {"none", "sql"} : RemoveObject(id, fail)
  \/ \E id \in ObjIds, v \in Variants : UpdateObject(SpatialObject(id, v))
  \/ \E fail \in {"none", "sql"} : Reopen(fail)

Spec == Init /\ [][Next]_vars

\* ============================================================ claims (Spec)

\* the corners of a query box that contains every position of the model
SpaceMin == <<-5, -5, -5>>
SpaceMax == <<5, 5, 5>>

\* number of objects with this uuid in one region, and in all regions
CopiesOfId(r, id) == BagCardinality([o \in WithId(r, id) |-> rtree[r][o]])

RECURSIVE SumCopies(_, _)
SumCopies(rs, id) ==
  IF rs = {} THEN 0
  ELSE LET r == CHOOSE x \in rs : TRUE
       IN CopiesOfId(r, id) + SumCopies(rs \ {r}, id)

IdCount(id) == SumCopies(DOMAIN regions, id)

\* the point rows say exactly what the regions hold in memory
BackendEqualsMemory ==
  /\ \A id \in DOMAIN db_points : db_points[id].region_id \in DOMAIN regions
  /\ \A id \in DOMAIN db_points : RowReadable(id)
  /\ \A r \in DOMAIN regions : get_points_in_region(r) = rtree[r]

Mutating == {"add_object", "update_object", "transfer_player", "remove_object"}

\* C1: after successful add/remove/update/transfer calls only, a query over
\* the whole space of each region returns exactly the objects whose current
\* membership is that region, each once.
C1_QueryMatchesMembership ==
  (open /\ faults = 0) =>
    \A r \in DOMAIN regions :
      LET q == query_region(r, SpaceMin, SpaceMax)
          ids == { id \in DOMAIN member : member[id] = r }
      IN /\ { o.uuid : o \in BagToSet(q) } = ids
         /\ BagCardinality(q) = Cardinality(ids)

\* C2 (as claimed): whenever a mutating call has returned success, the point
\* rows equal the in-memory contents of all regions (stated for the states
\* in which no id is held twice).
C2_WriteThroughAll ==
  (open /\ last.op \in Mutating /\ last.result = "Ok" /\ \A id \in ObjIds : IdCount(id) <= 1)
    => BackendEqualsMemory

\* C2 (amended): add_object and remove_object write through for the object
\* they are called with; update_object and transfer_player write nothing.
C2_WriteThrough ==
  [][ /\ \A r \in DOMAIN regions, id \in ObjIds, v \in Variants :
           (last'.op = "add_object" /\ AddObject(r, id, v, "none")) =>
             /\ id \in DOMAIN db_points'
             /\ db_points'[id].region_id = r
             /\ RowReadable(id)'
             /\ LoadedObject(id)' = SpatialObject(id, v)
      /\ \A id \in ObjIds :
           (Exists(id) /\ last'.op = "remove_object" /\ RemoveObject(id, "none")) =>
             id \notin DOMAIN db_points'
      /\ (last'.op \in {"update_object", "transfer_player"}) => UNCHANGED disk
    ]_vars

\* C2 witness: a successful add_object of an id whose object was changed in
\* memory only is in the backend as added
C2_Witness ==
  /\ last = Result("add_object", "Ok")
  /\ Cardinality(DOMAIN db_points) = 2
  /\ ~BackendEqualsMemory

\* C3: after a successful persist_to_disk, closing the Vault and opening a new
\* one on the same backend yields the same regions with the same objects.
C3_PersistRoundTrip ==
  [][ (last = Result("persist_to_disk", "Ok") /\ Reopen("none")) =>
        /\ last'.result = "Ok"
        /\ DOMAIN regions' = DOMAIN regions
        /\ \A r \in DOMAIN regions : BagToSet(rtree'[r]) = BagToSet(rtree[r])
    ]_vars

\* C4: every object id occurs at most once over all regions' R-trees.
C4_UniqueIds == \A id \in ObjIds : IdCount(id) <= 1

\* C5: add_object with an id some region already holds fails with DuplicateId
\* and changes neither the regions nor the backend.
C5_DuplicateIdRejected ==
  [][ \A r \in DOMAIN regions, id \in ObjIds, v \in Variants, fail \in AddFails :
        (Exists(id) /\ last'.op = "add_object" /\ AddObject(r, id, v, fail)) =>
          /\ last'.result = "DuplicateId"
          /\ UNCHANGED <<regions, rtree, disk>>
    ]_vars

\* C6: when the backend write of add_object fails, the insert is rolled back:
\* no region holds the id afterwards.
C6_AddRolledBack ==
  [][ \A r \in DOMAIN regions, id \in ObjIds, v \in Variants :
        \A fail \in {"file", "write", "sql"} :
          (last'.op = "add_object" /\ AddObject(r, id, v, fail)) =>
            /\ get_object(id)' = {}
            /\ \A o \in BagToSet(query_region(r, SpaceMin, SpaceMax)') : o.uuid # id
    ]_vars

\* C9: a successful transfer between two different regions takes one object
\* with the id out of the source and puts it, moved to the destination's
\* center and otherwise equal, into the destination; nothing else changes.
C9_TransferEffect ==
  [][ \A id \in ObjIds, from \in DOMAIN regions, to \in DOMAIN regions :
        (last' = Result("transfer_player", "Ok") /\ TransferPlayer(id, from, to)) =>
          /\ from # to
          /\ \E p \in WithId(from, id) :
               /\ rtree'[from] = rtree[from] (-) SetToBag({p})
               /\ rtree'[to] = rtree[to] (+)
                    SetToBag({[p EXCEPT !.point = regions[to].center]})
          /\ \A r \in DOMAIN regions \ {from, to} : rtree'[r] = rtree[r]
          /\ DOMAIN rtree' = DOMAIN rtree
          /\ regions' = regions
    ]_vars

\* C9 witness: a transfer succeeded while another object was in memory
C9_Witness ==
  /\ last = Result("transfer_player", "Ok")
  /\ TotalObjects = 2
  /\ \E r \in DOMAIN regions : BagCardinality(rtree[r]) = 2

\* C10: transfer_player(x, r, r) returns success and leaves x in r, once, at
\* r's center.
C10_SelfTransfer ==
  [][ \A id \in ObjIds, r \in DOMAIN regions :
        (WithId(r, id) # {} /\ last'.op = "transfer_player" /\ TransferPlayer(id, r, r)) =>
          /\ last'.result = "Ok"
          /\ open'
          /\ CopiesOfId(r, id)' = CopiesOfId(r, id)
          /\ \A o \in WithId(r, id)' : o.point = regions[r].center
    ]_vars

\* ================================================================ ConcSpec
\* Threads sharing one VaultManager through the operations that take &self;
\* each thread makes one call.  A call is a step that evaluates the arguments
\* and looks the regions up, then one step per Mutex::lock(): a thread waits
\* at the step while another thread holds the mutex.  The guard of a
\* single-region critical section is dropped before the next lock() of the
\* same call.

\* where add_object calls made before the threads start have put the objects:
\* object id -> [region, v], for some of the ids
Placements ==
  UNION { [ids -> [region : RegionIds, v : Variants]] : ids \in SUBSET ObjIds }

\* the Vault after create_or_load_region has returned for both shapes and
\* add_object for the placed objects
ConcInit ==
  /\ open = TRUE
  /\ regions = [r \in RegionIds |->
                  [center |-> <<2 * (r - 1), 2 * (r - 1), 2 * (r - 1)>>, size |-> 2]]
  /\ \E placed \in Placements :
       /\ Cardinality(DOMAIN placed) <= MaxObjects
       /\ rtree = [r \in RegionIds |->
                     SetToBag({ SpatialObject(id, placed[id].v) :
                                  id \in { i \in DOMAIN placed : placed[i].region = r } })]
       /\ member = [id \in DOMAIN placed |-> placed[id].region]
       /\ db_points = [id \in DOMAIN placed |->
                         PointRow(SpatialObject(id, placed[id].v), placed[id].region)]
       /\ files = [path \in { FilePath(id) : id \in DOMAIN placed } |->
                     Encode(placed[path[2]].v.custom_data)]
  /\ poisoned = {}
  /\ used_ids = RegionIds
  /\ db_regions = regions
  /\ faults = 0
  /\ last = Result("add_object", "Ok")
  /\ pc = [t \in Threads |-> "idle"]
  /\ lock = [r \in RegionIds |-> 0]
  /\ targ = [t \in Threads |-> None]

\* the orders in which a pass over the regions HashMap can yield them
RegionOrders ==
  { s \in [1..Cardinality(DOMAIN regions) -> DOMAIN regions] :
      \A i, j \in DOMAIN s : s[i] = s[j] => i = j }

\* the orders in which an iteration over an R-tree can yield its objects
BagOrders(b) ==
  { s \in [1..BagCardinality(b) -> BagToSet(b)] :
      \A o \in BagToSet(b) : Cardinality({ i \in DOMAIN s : s[i] = o }) = b[o] }

\* the backend after add_point for the first n objects of s, all in region r
RECURSIVE WriteSeq(_, _, _, _, _)
WriteSeq(rows, fs, s, r, n) ==
  IF n = 0 THEN [rows |-> rows, files |-> fs, ok |-> TRUE]
  ELSE LET before == WriteSeq(rows, fs, s, r, n - 1)
       IN add_point(before.rows, before.files, s[n], r, "none")

\* the call of thread t returns; the thread keeps what it called and what it
\* got back
Return(t, op, res) ==
  /\ pc' = [pc EXCEPT ![t] = "returned"]
  /\ targ' = [targ EXCEPT ![t] = [op |-> op, result |-> res, args |-> targ[t]]]
  /\ last' = Result(op, res)

\* thread t panics: its stack unwinds, the guards it holds are dropped and
\* their mutexes are poisoned
Unwind(t) ==
  /\ pc' = [pc EXCEPT ![t] = "panicked"]
  /\ targ' = [targ EXCEPT ![t] = None]
  /\ poisoned' = poisoned \cup { r \in RegionIds : lock[r] = t }
  /\ lock' = [r \in RegionIds |-> IF lock[r] = t THEN 0 ELSE lock[r]]
  /\ last' = Result("thread", "Panic")

\* objects already inserted or about to be inserted by a started add_object
Pending == Cardinality({ t \in Threads : pc[t] = "add_lock" })

add_object_call(t, region_id, uuid, v) ==
  /\ pc[t] = "idle"
  /\ region_id \in DOMAIN regions
  /\ TotalObjects + Pending < MaxObjects
  /\ pc' = [pc EXCEPT ![t] = "add_lock"]
  \* held: history, the number of objects in the Vault when the call began
  /\ targ' = [targ EXCEPT ![t] = [region |-> region_id,
                                   obj |-> SpatialObject(uuid, v),
                                   held |-> TotalObjects]]
  /\ UNCHANGED <<mem, disk, faults, last, poisoned, lock>>

add_object_locked(t) ==
  /\ pc[t] = "add_lock"
  /\ lock[targ[t].region] = 0
  /\ IF targ[t].region \in poisoned
     THEN Unwind(t) /\ UNCHANGED <<mem, disk>>
     ELSE LET r == targ[t].region
              obj == targ[t].obj
              w == add_point(db_points, files, obj, r, "none")
          IN /\ rtree' = [rtree EXCEPT ![r] = @ (+) SetToBag({obj})]
             /\ member' = Put(member, obj.uuid, r)
             /\ db_points' = w.rows
             /\ files' = w.files
             /\ Return(t, "add_object", "Ok")
             /\ UNCHANGED <<open, regions, used_ids, db_regions, poisoned, lock>>
  /\ UNCHANGED faults

query_region_call(t, region_id) ==
  /\ pc[t] = "idle"
  /\ region_id \in DOMAIN regions
  /\ pc' = [pc EXCEPT ![t] = "query_lock"]
  /\ targ' = [targ EXCEPT ![t] = [region |-> region_id]]
  /\ UNCHANGED <<mem, disk, faults, last, poisoned, lock>>

query_region_locked(t) ==
  /\ pc[t] = "query_lock"
  /\ lock[targ[t].region] = 0
  /\ IF targ[t].region \in poisoned
     THEN Unwind(t)
     ELSE Return(t, "query_region", "Ok") /\ UNCHANGED <<poisoned, lock>>
  /\ UNCHANGED <<mem, disk, faults>>

get_object_call(t, object_id, order) ==
  /\ pc[t] = "idle"
  /\ pc' = [pc EXCEPT ![t] = "get_lock"]
  \* existed: history, whether some region held the id when the call began
  /\ targ' = [targ EXCEPT ![t] = [id |-> object_id, todo |-> order,
                                   existed |-> Exists(object_id)]]
  /\ UNCHANGED <<mem, disk, faults, last, poisoned, lock>>

\* one iteration of the loop over the regions
get_object_next(t) ==
  /\ pc[t] = "get_lock"
  /\ lock[Head(targ[t].todo)] = 0
  /\ LET r == Head(targ[t].todo)
     IN IF r \in poisoned
        THEN Unwind(t)
        ELSE IF WithId(r, targ[t].id) # {}
        THEN Return(t, "get_object", "Some") /\ UNCHANGED <<poisoned, lock>>
        ELSE IF Len(targ[t].todo) = 1
        THEN Return(t, "get_object", "None") /\ UNCHANGED <<poisoned, lock>>
        ELSE /\ targ' = [targ EXCEPT ![t].todo = Tail(@)]
             /\ UNCHANGED <<pc, last, poisoned, lock>>
  /\ UNCHANGED <<mem, disk, faults>>

transfer_player_call(t, player_uuid, from_id, to_id) ==
  /\ pc[t] = "idle"
  /\ IF from_id \notin DOMAIN regions \/ to_id \notin DOMAIN regions
     THEN Return(t, "transfer_player", "RegionNotFound")
     ELSE /\ pc' = [pc EXCEPT ![t] = "transfer_lock_from"]
          /\ targ' = [targ EXCEPT ![t] = [id |-> player_uuid, from |-> from_id,
                                          to |-> to_id]]
          /\ UNCHANGED last
  /\ UNCHANGED <<mem, disk, faults, poisoned, lock>>

\* let mut from_region = from_region.lock().unwrap();
transfer_player_lock_from(t) ==
  /\ pc[t] = "transfer_lock_from"
  /\ lock[targ[t].from] = 0
  /\ IF targ[t].from \in poisoned
     THEN Unwind(t)
     ELSE /\ lock' = [lock EXCEPT ![targ[t].from] = t]
          /\ pc' = [pc EXCEPT ![t] = "transfer_lock_to"]
          /\ UNCHANGED <<targ, last, poisoned>>
  /\ UNCHANGED <<mem, disk, faults>>

\* let mut to_region = to_region.lock().unwrap();
\* Locking a mutex the thread already holds blocks for ever or panics.
transfer_player_lock_to(t) ==
  /\ pc[t] = "transfer_lock_to"
  /\ IF lock[targ[t].to] = t
     THEN \/ /\ pc' = [pc EXCEPT ![t] = "blocked"]
             /\ UNCHANGED <<targ, last, poisoned, lock>>
          \/ Unwind(t)
     ELSE /\ lock[targ[t].to] = 0
          /\ IF targ[t].to \in poisoned
             THEN Unwind(t)
             ELSE /\ lock' = [lock EXCEPT ![targ[t].to] = t]
                  /\ pc' = [pc EXCEPT ![t] = "transfer_locked"]
                  /\ UNCHANGED <<targ, last, poisoned>>
  /\ UNCHANGED <<mem, disk, faults>>

\* the body under both guards; both are dropped on return
transfer_player_locked(t) ==
  /\ pc[t] = "transfer_locked"
  /\ LET from_id == targ[t].from
         to_id == targ[t].to
     IN IF WithId(from_id, targ[t].id) = {}
        THEN /\ Return(t, "transfer_player", "ObjectNotFound")
             /\ UNCHANGED mem
        ELSE \E player \in WithId(from_id, targ[t].id) :
               /\ rtree' = [rtree EXCEPT
                              ![from_id] = @ (-) SetToBag({player}),
                              ![to_id] = @ (+) SetToBag(
                                           {updated_player(player, regions[to_id].center)})]
               /\ member' = Put(member, targ[t].id, to_id)
               /\ Return(t, "transfer_player", "Ok")
               /\ UNCHANGED <<open, regions, used_ids>>
  /\ lock' = [r \in RegionIds |-> IF lock[r] = t THEN 0 ELSE lock[r]]
  /\ UNCHANGED <<disk, faults, poisoned>>

\* clear_all_points, then the first loop starts
persist_to_disk_call(t, order) ==
  /\ pc[t] = "idle"
  /\ db_points' = << >>
  /\ pc' = [pc EXCEPT ![t] = "persist_count"]
  /\ targ' = [targ EXCEPT ![t] = [order |-> order, todo |-> order, total |-> 0]]
  /\ UNCHANGED <<mem, db_regions, files, faults, last, poisoned, lock>>

\* one iteration of the loop that adds up total_points
persist_to_disk_count(t) ==
  /\ pc[t] = "persist_count"
  /\ lock[Head(targ[t].todo)] = 0
  /\ LET r == Head(targ[t].todo)
     IN IF r \in poisoned
        THEN Unwind(t)
        ELSE /\ targ' = [targ EXCEPT
                           ![t].total = @ + BagCardinality(rtree[r]),
                           ![t].todo = IF Len(@) = 1 THEN targ[t].order ELSE Tail(@)]
             /\ pc' = [pc EXCEPT ![t] = IF Len(targ[t].todo) = 1
                                        THEN "persist_write" ELSE "persist_count"]
             /\ UNCHANGED <<last, poisoned, lock>>
  /\ UNCHANGED <<mem, disk, faults>>

\* one iteration of the loop that writes a region's objects; after the last
\* one the average is printed: duration / total_points panics on 0
persist_to_disk_write(t) ==
  /\ pc[t] = "persist_write"
  /\ lock[Head(targ[t].todo)] = 0
  /\ LET r == Head(targ[t].todo)
     IN IF r \in poisoned
        THEN Unwind(t) /\ UNCHANGED disk
        ELSE /\ \E s \in BagOrders(rtree[r]) :
                  LET w == WriteSeq(db_points, files, s, r, Len(s))
                  IN db_points' = w.rows /\ files' = w.files
             /\ UNCHANGED db_regions
             /\ IF Len(targ[t].todo) > 1
                THEN /\ targ' = [targ EXCEPT ![t].todo = Tail(@)]
                     /\ UNCHANGED <<pc, last, poisoned, lock>>
                ELSE IF targ[t].total = 0
                THEN Unwind(t)
                ELSE Return(t, "persist_to_disk", "Ok") /\ UNCHANGED <<poisoned, lock>>
  /\ UNCHANGED <<mem, faults>>

ConcNext ==
  \E t \in Threads :
    \/ \E r \in RegionIds, id \in ObjIds, v \in Variants : add_object_call(t, r, id, v)
    \/ add_object_locked(t)
    \/ \E r \in RegionIds : query_region_call(t, r)
    \/ query_region_locked(t)
    \/ \E id \in ObjIds, order \in RegionOrders : get_object_call(t, id, order)
    \/ get_object_next(t)
    \/ \E id \in ObjIds, from \in RegionIds, to \in RegionIds :
         transfer_player_call(t, id, from, to)
    \/ transfer_player_lock_from(t)
    \/ transfer_player_lock_to(t)
    \/ transfer_player_locked(t)
    \/ \E order \in RegionOrders : persist_to_disk_call(t, order)
    \/ persist_to_disk_count(t)
    \/ persist_to_disk_write(t)

ConcSpec == ConcInit /\ [][ConcNext]_vars

\* ======================================================== claims (ConcSpec)

\* the region whose mutex thread t is about to lock (0: none)
Wants(t) ==
  CASE pc[t] \in {"add_lock", "query_lock"} -> targ[t].region
    [] pc[t] \in {"get_lock", "persist_count", "persist_write"} -> Head(targ[t].todo)
    [] pc[t] = "transfer_lock_from" -> targ[t].from
    [] pc[t] = "transfer_lock_to" -> targ[t].to
    [] OTHER -> 0

\* the other thread that holds the mutex thread t is waiting for (0: none)
WaitsFor(t) == IF Wants(t) = 0 \/ lock[Wants(t)] = t THEN 0 ELSE lock[Wants(t)]

\* thread t is in a cycle of threads each waiting for the next one's mutex
RECURSIVE InCycle(_, _, _)
InCycle(t, u, n) ==
  /\ n > 0
  /\ WaitsFor(u) # 0
  /\ (WaitsFor(u) = t \/ InCycle(t, WaitsFor(u), n - 1))

\* C7: a thread in transfer_player that holds one region's mutex and is about
\* to lock the other one holds the one with the smaller region id.
C7_AscendingLockOrder ==
  \A t \in Threads :
    (pc[t] = "transfer_lock_to" /\ targ[t].from # targ[t].to) =>
      /\ lock[targ[t].from] = t
      /\ targ[t].from < targ[t].to

\* C8: no two or more threads wait for each other's region mutex in a cycle,
\* so that none of their calls can return.
C8_NoDeadlock == \A t \in Threads : ~InCycle(t, t, MaxThreads)

\* the call thread t has returned from, if any
Returned(t, op, res) ==
  pc[t] = "returned" /\ targ[t].op = op /\ targ[t].result = res

\* C11: a get_object(id) that began while some region held the id, with only
\* transfers moving it meanwhile, does not return none.
C11_GetDuringTransfer ==
  [][ \A t \in Threads :
        (pc[t] = "get_lock" /\ pc'[t] = "returned" /\ targ[t].existed) =>
          last'.result # "None"
    ]_vars

\* C12: once a persist_to_disk and a transfer_player that ran in different
\* threads have both returned success, every object in memory has a point row.
C12_PersistDuringTransfer ==
  (\E t1, t2 \in Threads :
     /\ t1 # t2
     /\ Returned(t1, "persist_to_disk", "Ok")
     /\ Returned(t2, "transfer_player", "Ok"))
  => \A r \in DOMAIN regions : \A o \in BagToSet(rtree[r]) : o.uuid \in DOMAIN db_points

\* every thread has made one successful add_object, all on one region, with
\* pairwise distinct ids, and the Vault held no object when the first began
AllAddedTo(r) ==
  /\ \A t \in Threads : Returned(t, "add_object", "Ok") /\ targ[t].args.region = r
  /\ \A t1, t2 \in Threads :
       targ[t1].args.obj.uuid = targ[t2].args.obj.uuid => t1 = t2
  /\ \E t \in Threads : targ[t].args.held = 0

\* C13: after concurrent add_object calls with pairwise distinct ids on one
\* region of an empty Vault, a query over the whole region returns exactly
\* the added objects, one per call, and the backend holds exactly their rows.
C13_ConcurrentAdds ==
  \A r \in DOMAIN regions :
    AllAddedTo(r) =>
      LET q == query_region(r, SpaceMin, SpaceMax)
          added == { targ[t].args.obj : t \in Threads }
      IN /\ BagToSet(q) = added
         /\ BagCardinality(q) = Cardinality(Threads)
         /\ DOMAIN db_points = { o.uuid : o \in added }
         /\ \A o \in added :
              /\ db_points[o.uuid].region_id = r
              /\ RowReadable(o.uuid)
              /\ LoadedObject(o.uuid) = o

\* C13 witness: all threads have added to the same region
C13_Witness == \E r \in DOMAIN regions : AllAddedTo(r)

\* ================================================== further claims (Spec)

\* the object a point row and its payload file describe
RowObject(id) ==
  [uuid |-> id, object_type |-> db_points[id].object_type,
   point |-> db_points[id].point, size |-> db_points[id].size,
   custom_data |-> files[db_points[id].dataFile][2]]

\* C14: right after VaultManager::new has succeeded, the regions in memory
\* are the stored regions, and each region's R-tree holds, once each, exactly
\* the objects of the point rows that carry its region id.
C14_RecoveredState ==
  (last = Result("new", "Ok")) =>
    /\ open
    /\ regions = db_regions
    /\ DOMAIN rtree = DOMAIN db_regions
    /\ \A r \in DOMAIN regions :
         /\ BagToSet(rtree[r]) =
              { RowObject(id) : id \in { i \in DOMAIN db_points :
                                          db_points[i].region_id = r } }
         /\ \A o \in BagToSet(rtree[r]) : rtree[r][o] = 1

\* C14 witness: a Vault opened on a backend that stores two regions and a
\* point in each
C14_Witness ==
  /\ last = Result("new", "Ok")
  /\ Cardinality(DOMAIN regions) = 2
  /\ \A r \in DOMAIN regions : rtree[r] # EmptyBag

\* the point rows of stored regions whose payload file is missing or is not
\* a JSON document
BadRows ==
  { id \in DOMAIN db_points :
      /\ db_points[id].region_id \in DOMAIN db_regions
      /\ \/ db_points[id].dataFile \notin DOMAIN files
         \/ files[db_points[id].dataFile][1] # "json" }

\* C15: when a backend read fails during VaultManager::new, or a point row
\* of a stored region has a payload file that is missing or does not decode,
\* new returns an error and no Vault.
C15_RecoveryFails ==
  [][ \A fail \in {"none", "sql"} :
        (last'.op = "new" /\ (fail # "none" \/ BadRows # {}) /\ Reopen(fail)) =>
          /\ last'.result = "RecoveryError"
          /\ ~open'
          /\ regions' = << >>
          /\ rtree' = << >>
    ]_vars

\* C15 witness: new has failed on a row whose payload file does not decode
C15_Witness ==
  /\ last = Result("new", "RecoveryError")
  /\ BadRows # {}
  /\ ~open

\* C16: right after a successful add_object of p, get_object(p.id) can only
\* return an object equal to p.
C16_GetReturnsAdded ==
  [][ \A r \in DOMAIN regions, id \in ObjIds, v \in Variants :
        (last'.op = "add_object" /\ AddObject(r, id, v, "none")) =>
          get_object(id)' = {SpatialObject(id, v)}
    ]_vars

\* C17: a successful add_object(p) followed by a successful
\* remove_object(p.id) gives back the R-trees and the point rows there were
\* before the add.
C17_AddThenRemove ==
  [][ \A r \in DOMAIN regions, id \in ObjIds, v \in Variants :
        (last'.op = "add_object" /\ AddObject(r, id, v, "none")) =>
          /\ removals(id)' # {}
          /\ \A rt \in removals(id)' : rt = rtree
          /\ remove_point(db_points', id) = db_points
    ]_vars

\* C18: create_or_load_region with the center and size of a region that is
\* in memory returns that region's id and changes neither the registry nor
\* the backend.
C18_SecondCreate ==
  [][ \A shape \in RegionShapes :
        ( /\ \E r \in DOMAIN regions : regions[r] = shape
          /\ last'.op = "create_or_load_region"
          /\ CreateOrLoadRegion(shape, "none") ) =>
          /\ last'.result = "Ok"
          /\ last'.id \in DOMAIN regions
          /\ regions[last'.id] = shape
          /\ UNCHANGED <<regions, rtree, used_ids, db_regions, db_points, files>>
    ]_vars

\* C18 witness: create_or_load_region has returned the id of the only
\* region, which already held an object
C18_Witness ==
  /\ last.op = "create_or_load_region"
  /\ last.result = "Ok"
  /\ Cardinality(DOMAIN regions) = 1
  /\ rtree[last.id] # EmptyBag

\* C19: a region that a successful create_or_load_region has created is
\* stored in the backend when the call returns, no call changes or deletes a
\* stored region, and in a Vault opened on the backend create_or_load_region
\* with a stored region's center and size finds that region's id and no other.
C19_RegionPersisted ==
  [][ /\ \A shape \in RegionShapes :
           ( /\ ~ \E r \in DOMAIN regions : regions[r] = shape
             /\ last'.op = "create_or_load_region"
             /\ last'.result = "Ok"
             /\ CreateOrLoadRegion(shape, "none") ) =>
             /\ last'.id \in DOMAIN db_regions'
             /\ db_regions'[last'.id] = shape
      /\ \A r \in DOMAIN db_regions :
           r \in DOMAIN db_regions' /\ db_regions'[r] = db_regions[r]
      /\ (last' = Result("new", "Ok") /\ Reopen("none")) =>
           \A r \in DOMAIN db_regions : find_region(db_regions[r])' = {r}
    ]_vars

\* C19 witness: a Vault opened on a backend holding both regions, which no
\* persist_to_disk has written (there are no point rows)
C19_Witness ==
  /\ last = Result("new", "Ok")
  /\ Cardinality(DOMAIN regions) = 2
  /\ db_points = << >>

\* C20: remove_object with an id that no region holds returns ObjectNotFound
\* and changes neither a region's contents in memory nor the backend.
C20_RemoveUnknown ==
  [][ \A object_id \in ObjIds :
        ( /\ \A r \in DOMAIN regions : WithId(r, object_id) = {}
          /\ last'.op = "remove_object"
          /\ \E fail \in {"none", "sql"} : RemoveObject(object_id, fail) ) =>
          /\ last' = Result("remove_object", "ObjectNotFound")
          /\ UNCHANGED <<regions, rtree, db_regions, db_points, files>>
    ]_vars

\* C20 witness: the call has failed in a Vault that holds objects and rows
C20_Witness ==
  /\ last = Result("remove_object", "ObjectNotFound")
  /\ TotalObjects >= 1
  /\ db_points # << >>

\* C21: when remove_point fails during remove_object the error is returned
\* and the object is back in memory: every R-tree is as it was before the
\* call, so memory and backend both still hold the object.
C21_RemoveFailureReinserts ==
  [][ \A object_id \in ObjIds :
        ( /\ last'.op = "remove_object"
          /\ \E r \in DOMAIN regions : WithId(r, object_id) # {}
          /\ RemoveObject(object_id, "sql") ) =>
          /\ last'.result = "BackendError"
          /\ rtree' = rtree
          /\ db_points' = db_points
    ]_vars

\* =============================================================== QuerySpec
\* One caller of the operations on the in-memory index, with a backend that
\* never fails and query_region as a step of its own: the call's result is
\* kept in last.

\* corners handed to query_region
Corners == { <<0, 0, 0>>, <<2, 2, 2>>, <<0, 2, 0>> }

\* Ok(results) / Err("Region not found: ..")
QueryRegion(region_id, min, max) ==
  /\ Ready
  /\ last' = IF region_id \notin DOMAIN regions
             THEN Result("query_region", "RegionNotFound")
             ELSE [op |-> "query_region", result |-> "Ok",
                   objects |-> query_region(region_id, min, max)]
  /\ UNCHANGED <<mem, disk, faults, conc>>

QueryNext ==
  \/ \E shape \in RegionShapes : CreateOrLoadRegion(shape, "none")
  \/ \E r \in RegionIds, id \in ObjIds, v \in Variants : AddObject(r, id, v, "none")
  \/ \E id \in ObjIds, from \in RegionIds, to \in RegionIds :
       TransferPlayer(id, from, to)
  \/ \E id \in ObjIds : RemoveObject(id, "none")
  \/ \E id \in ObjIds, v \in Variants : UpdateObject(SpatialObject(id, v))
  \/ \E r \in RegionIds, min \in Corners, max \in Corners : QueryRegion(r, min, max)

QuerySpec == Init /\ [][QueryNext]_vars

\* ======================================================= claims (QuerySpec)

\* the objects of a region whose position lies between the two corners on
\* every axis, bounds included
Between(region_id, min, max) ==
  LET hit == { o \in BagToSet(rtree[region_id]) :
                 \A i \in 1..3 : min[i] <= o.point[i] /\ o.point[i] <= max[i] }
  IN [o \in hit |-> rtree[region_id][o]]

\* C22: query_region(r, min, max) returns exactly the objects of region r
\* whose position p has min_i <= p_i <= max_i on all three axes, whatever
\* their size; with min = max these are the objects at that position.
C22_QueryClosedBox ==
  [][ \A r \in DOMAIN regions, min \in Corners, max \in Corners :
        (last'.op = "query_region" /\ QueryRegion(r, min, max)) =>
          /\ last'.result = "Ok"
          /\ last'.objects = Between(r, min, max)
    ]_vars

\* C23: query_region with min_i > max_i on some axis returns nothing.
C23_InvertedBoxEmpty ==
  [][ \A r \in DOMAIN regions, min \in Corners, max \in Corners :
        ( /\ last'.op = "query_region"
          /\ \E i \in 1..3 : min[i] > max[i]
          /\ QueryRegion(r, min, max) ) =>
          /\ last'.result = "Ok"
          /\ last'.objects = EmptyBag
    ]_vars

\* ================================================== further claims (Spec), 2

\* C24: update_object(obj) for an id some region holds returns Ok, after it
\* get_object(obj.id) can only return obj, the id is in the regions it was in
\* and every region holds as many objects as before; for an id no region
\* holds it returns ObjectNotFound and changes nothing.
C24_UpdateInPlace ==
  [][ \A id \in ObjIds, v \in Variants :
        (last'.op = "update_object" /\ UpdateObject(SpatialObject(id, v))) =>
          IF \E r \in DOMAIN regions : WithId(r, id) # {}
          THEN /\ last'.result = "Ok"
               /\ get_object(id)' = {SpatialObject(id, v)}
               /\ regions' = regions
               /\ \A r \in DOMAIN regions :
                    /\ (WithId(r, id) # {}) <=> (WithId(r, id)' # {})
                    /\ BagCardinality(rtree'[r]) = BagCardinality(rtree[r])
          ELSE /\ last'.result = "ObjectNotFound"
               /\ UNCHANGED <<regions, rtree, db_regions, db_points, files>>
    ]_vars

\* ==================================================== claims (QuerySpec), 2

\* C25: add_object, query_region and transfer_player called with a region id
\* that is not in the registry return RegionNotFound and change neither the
\* regions, their contents nor the backend.
C25_UnknownRegion ==
  [][ /\ \A r \in RegionIds \ DOMAIN regions, id \in ObjIds, v \in Variants :
           (last'.op = "add_object" /\ AddObject(r, id, v, "none")) =>
             /\ last'.result = "RegionNotFound"
             /\ UNCHANGED <<regions, rtree, db_regions, db_points, files>>
      /\ \A r \in RegionIds \ DOMAIN regions, min \in Corners, max \in Corners :
           (last'.op = "query_region" /\ QueryRegion(r, min, max)) =>
             /\ last'.result = "RegionNotFound"
             /\ UNCHANGED <<regions, rtree, db_regions, db_points, files>>
      /\ \A id \in ObjIds, from \in RegionIds, to \in RegionIds :
           ( /\ last'.op = "transfer_player"
             /\ from \notin DOMAIN regions \/ to \notin DOMAIN regions
             /\ TransferPlayer(id, from, to) ) =>
             /\ last'.result = "RegionNotFound"
             /\ UNCHANGED <<regions, rtree, db_regions, db_points, files>>
    ]_vars

\* C25 witness: a transfer of an object its region holds, to a region that
\* is not in the registry, has failed
C25_Witness ==
  /\ last = Result("transfer_player", "RegionNotFound")
  /\ Cardinality(DOMAIN regions) = 1
  /\ TotalObjects >= 1
  /\ db_points # << >>

\* ================================================== further claims (Spec), 3

\* C26: transfer_player(id, from, to) between regions of the registry, with
\* no object of that id in the from-region, returns ObjectNotFound and leaves
\* the contents of every region as they were, also when another region
\* holds the id.
C26_TransferUnknownObject ==
  [][ \A id \in ObjIds, from \in DOMAIN regions, to \in DOMAIN regions :
        ( /\ last'.op = "transfer_player"
          /\ WithId(from, id) = {}
          /\ TransferPlayer(id, from, to) ) =>
          /\ last'.result = "ObjectNotFound"
          /\ UNCHANGED <<regions, rtree>>
    ]_vars

\* C27: a successful add_object with a uuid some region already holds
\* overwrites: afterwards memory holds exactly one object with that uuid, the
\* one just given, and the backend holds its row and payload.
C27_AddOverwrites ==
  [][ \A r \in DOMAIN regions, id \in ObjIds, v \in Variants :
        ( /\ last'.op = "add_object"
          /\ \E q \in DOMAIN regions : WithId(q, id) # {}
          /\ AddObject(r, id, v, "none") ) =>
          /\ last'.result = "Ok"
          /\ IdCount(id)' = 1
          /\ get_object(id)' = {SpatialObject(id, v)}
          /\ id \in DOMAIN db_points'
          /\ db_points'[id] = PointRow(SpatialObject(id, v), r)
          /\ LoadedObject(id)' = SpatialObject(id, v)
    ]_vars

\* ============================================================ TwoVaultSpec
\* This Vault and a second Vault of the same process, opened on another
\* database.  The second Vault has its own regions, R-trees and tables, which
\* nothing of this Vault reads; its backend writes payload files below the
\* same directory ./data, so of its calls the model keeps the file writes.

\* the second Vault's add_object(.., uuid, ..) returning Ok: its add_point
\* writes ./data/<xx>/<uuid> and a row of its own table
OtherAddObject(uuid, v) ==
  /\ LET w == add_point(<< >>, files, SpatialObject(uuid, v), 0, "none")
     IN files' = w.files
  /\ last' = Result("add_object (second Vault)", "Ok")
  /\ UNCHANGED <<mem, db_regions, db_points, faults, conc>>

TwoVaultNext ==
  \/ \E shape \in RegionShapes : CreateOrLoadRegion(shape, "none")
  \/ \E r \in RegionIds, id \in ObjIds, v \in Variants : AddObject(r, id, v, "none")
  \/ \E s \in PersistOrders : PersistToDisk(s, 0, "none")
  \/ \E id \in ObjIds : RemoveObject(id, "none")
  \/ Reopen("none")
  \/ \E id \in ObjIds, v \in Variants : OtherAddObject(id, v)

TwoVaultSpec == Init /\ [][TwoVaultNext]_vars

\* ==================================================== claims (TwoVaultSpec)

\* C28: a call on the second Vault changes nothing of what this Vault returns
\* from query_region and get_object (its R-trees) and nothing of what it
\* recovers on reopen: the regions, and per region the objects with their
\* payloads.
C28_VaultsIsolated ==
  [][ \A id \in ObjIds, v \in Variants :
        (last'.op = "add_object (second Vault)" /\ OtherAddObject(id, v)) =>
          /\ UNCHANGED <<regions, rtree, db_regions>>
          /\ Unreadable' = Unreadable
          /\ ~Unreadable =>
               \A r \in DOMAIN db_regions :
                 get_points_in_region(r)' = get_points_in_region(r)
    ]_vars

\* ================================================== further claims (Spec), 4

\* C29: after a successful remove_object(id) the payload file of id does not
\* exist, and remove_object of an object whose payload file is already
\* absent does not fail.
C29_RemoveDeletesPayload ==
  [][ \A id \in ObjIds :
        ( /\ last'.op = "remove_object"
          /\ \E r \in DOMAIN regions : WithId(r, id) # {}
          /\ RemoveObject(id, "none") ) =>
          /\ last'.result = "Ok"
          /\ FilePath(id) \notin DOMAIN files'
    ]_vars

\* C30: a successful update_object or transfer_player leaves the backend as
\* it was: every region row, every point row (position, size, type, region
\* id) and every payload file.
C30_MemoryOnly ==
  [][ /\ \A id \in ObjIds, v \in Variants :
           ( /\ last'.op = "update_object"
             /\ last'.result = "Ok"
             /\ UpdateObject(SpatialObject(id, v)) ) =>
             UNCHANGED <<db_regions, db_points, files>>
      /\ \A id \in ObjIds, from \in RegionIds, to \in RegionIds :
           ( /\ last'.op = "transfer_player"
             /\ last'.result = "Ok"
             /\ TransferPlayer(id, from, to) ) =>
             UNCHANGED <<db_regions, db_points, files>>
    ]_vars

\* C30 witness: update_object has returned Ok and the one object in memory
\* differs from what its row still says
C30_Witness ==
  /\ last = Result("update_object", "Ok")
  /\ TotalObjects = 1
  /\ \E r \in DOMAIN regions : \E o \in BagToSet(rtree[r]) :
       /\ o.uuid \in DOMAIN db_points
       /\ db_points[o.uuid] # PointRow(o, r)

\* ================================================== further claims (Spec), 5

\* C31: a persist_to_disk that returns, with Ok or with an error, leaves the
\* registry and every region's R-tree as they were, and no persist_to_disk
\* changes the region rows of the backend (every step that ends with a
\* result of persist_to_disk in last is a step of PersistToDisk).
C31_PersistFrame ==
  [][ last'.op = "persist_to_disk" =>
        /\ db_regions' = db_regions
        /\ last'.result # "Panic" => UNCHANGED <<regions, rtree>>
    ]_vars

\* C31 witness: a persist_to_disk has failed part-way, with fewer rows
\* written than there are objects, in a Vault with stored regions
C31_Witness ==
  /\ last = Result("persist_to_disk", "BackendError")
  /\ TotalObjects = 2
  /\ Cardinality(DOMAIN db_points) = 1
  /\ db_regions # << >>

\* ============================================================== SqliteSpec
\* The Vault on a fresh SQLite database, with no failure other than those of
\* the schema: SQLite rejects a statement that names a column the table does
\* not have.

\* CREATE TABLE IF NOT EXISTS points (..)
create_table_points ==
  {"id", "x", "y", "z", "dataFile", "region_id", "object_type"}

\* INSERT OR REPLACE INTO points (..)
add_point_columns ==
  {"id", "x", "y", "z", "dataFile", "region_id", "object_type",
   "sizeX", "sizeY", "sizeZ"}

\* SELECT .. FROM points WHERE region_id = ?1
get_points_in_region_columns ==
  {"id", "x", "y", "z", "dataFile", "object_type", "sizeX", "sizeY", "sizeZ",
   "region_id"}

\* SELECT .. FROM points WHERE ((x - ?1) * (x - ?1) + ..) <= ?4
get_points_within_radius_columns ==
  {"id", "x", "y", "z", "dataFile", "object_type", "sizeX", "sizeY", "sizeZ"}

\* the step at which a call on the points table fails
Statement(columns) ==
  IF columns \subseteq create_table_points THEN "none" ELSE "sql"

\* add_object: the file is written, then the INSERT runs
SqliteAddObject(region_id, uuid, v) ==
  /\ open
  /\ LET obj == SpatialObject(uuid, v)
     IN IF region_id \notin DOMAIN regions
        THEN /\ last' = Result("add_object", "RegionNotFound")
             /\ UNCHANGED <<mem, disk>>
        ELSE /\ TotalObjects < MaxObjects
             /\ rtree' = [rtree EXCEPT ![region_id] = @ (+) SetToBag({obj})]
             /\ LET w == add_point(db_points, files, obj, region_id,
                                   Statement(add_point_columns))
                IN /\ db_points' = w.rows
                   /\ files' = w.files
                   /\ member' = IF w.ok THEN Put(member, uuid, region_id) ELSE member
                   /\ last' = Result("add_object",
                                     IF w.ok THEN "Ok" ELSE "BackendError")
             /\ UNCHANGED <<open, regions, used_ids, db_regions>>
  /\ UNCHANGED <<faults, conc>>

\* persist_to_disk: DELETE FROM points, then one add_point per object; a
\* rejected INSERT stops the loop at the first object
SqlitePersistToDisk(s) ==
  /\ open
  /\ IF TotalObjects = 0
     THEN /\ db_points' = << >>
          /\ UNCHANGED <<db_regions, files>>
          /\ last' = Result("persist_to_disk", "Panic")
          /\ VaultLost
     ELSE /\ LET w == IF Statement(add_point_columns) = "none"
                      THEN WriteAll(s, TotalObjects)
                      ELSE add_point(<< >>, files, s[1][2], s[1][1],
                                     Statement(add_point_columns))
             IN /\ db_points' = w.rows
                /\ files' = w.files
                /\ last' = Result("persist_to_disk",
                                  IF w.ok THEN "Ok" ELSE "BackendError")
          /\ UNCHANGED <<mem, db_regions>>
  /\ UNCHANGED <<faults, conc>>

\* VaultManager::new: load_regions_from_db prepares the SELECT once per
\* stored region
SqliteReopen ==
  IF db_regions # << >> /\ Statement(get_points_in_region_columns) # "none"
  THEN /\ open' = FALSE
       /\ regions' = << >>
       /\ rtree' = << >>
       /\ member' = << >>
       /\ last' = Result("new", "RecoveryError")
       /\ UNCHANGED <<used_ids, disk, faults, conc>>
  ELSE Reopen("none")

SqliteNext ==
  \/ \E shape \in RegionShapes : CreateOrLoadRegion(shape, "none")
  \/ \E r \in RegionIds, id \in ObjIds, v \in Variants : SqliteAddObject(r, id, v)
  \/ \E id \in ObjIds, from \in RegionIds, to \in RegionIds :
       TransferPlayer(id, from, to)
  \/ \E s \in PersistOrders : SqlitePersistToDisk(s)
  \/ \E id \in ObjIds : RemoveObject(id, "none")
  \/ \E id \in ObjIds, v \in Variants : UpdateObject(SpatialObject(id, v))
  \/ SqliteReopen

SqliteSpec == Init /\ [][SqliteNext]_vars

\* ====================================================== claims (SqliteSpec)

\* C32: when add_object has reached the backend of a Vault on a fresh
\* database, the points table create_table created has every column add_point
\* writes and get_points_in_region and get_points_within_radius read, and the
\* call has not failed at the backend.
C32_SchemaComplete ==
  (last.op = "add_object" /\ last.result # "RegionNotFound") =>
    /\ add_point_columns \subseteq create_table_points
    /\ get_points_in_region_columns \subseteq create_table_points
    /\ get_points_within_radius_columns \subseteq create_table_points
    /\ last.result = "Ok"

\* ================================================== further claims (Spec), 6

\* C33: a persist_to_disk during which the backend does not fail returns Ok
\* in every state of the Vault, also with no objects and with no regions, and
\* leaves the points table holding what memory holds (nothing, for an empty
\* Vault).
C33_PersistAlwaysOk ==
  [][ (last'.op = "persist_to_disk" /\ faults' = faults) =>
        /\ last'.result = "Ok"
        /\ open'
        /\ TotalObjects = 0 => db_points' = << >>
    ]_vars

\* C34: a persist_to_disk that returns an error leaves the point rows of the
\* backend as they were before the call, so never fewer than before.
C34_FailedPersistKeepsRows ==
  [][ ( /\ last'.op = "persist_to_disk"
        /\ last'.result \in {"BackendError", "PayloadEncoding"} ) =>
        /\ db_points' = db_points
        /\ Cardinality(DOMAIN db_points') >= Cardinality(DOMAIN db_points)
    ]_vars

\* C35: a create_or_load_region whose backend write fails returns the error
\* and leaves the registry as it was, and the registry never holds a region
\* the backend does not have.
C35_FailedCreateLeavesRegistry ==
  [][ /\ \A shape \in RegionShapes :
           (last'.op = "create_or_load_region" /\ CreateOrLoadRegion(shape, "sql")) =>
             /\ last'.result = "BackendError"
             /\ regions' = regions
             /\ rtree' = rtree
      /\ \A r \in DOMAIN regions' :
           r \in DOMAIN db_regions' /\ db_regions'[r] = regions'[r]
    ]_vars

\* C36: after a successful remove_object(id) no region holds an object with
\* that id: get_object(id) finds nothing and no query_region result, over the
\* whole space of any region, contains the id.
C36_RemovedIsGone ==
  [][ \A id \in ObjIds :
        ( /\ last'.op = "remove_object"
          /\ last'.result = "Ok"
          /\ RemoveObject(id, "none") ) =>
          /\ get_object(id)' = {}
          /\ \A r \in DOMAIN regions :
               \A o \in BagToSet(query_region(r, SpaceMin, SpaceMax)') : o.uuid # id
    ]_vars

\* C37: an add_object that fails because the payload cannot be encoded
\* leaves every region's contents as they were before the call.
C37_EncodeFailureRolledBack ==
  [][ \A r \in DOMAIN regions, id \in ObjIds, v \in Variants :
        (last'.op = "add_object" /\ AddObject(r, id, v, "encode")) =>
          /\ last'.result = "PayloadEncoding"
          /\ rtree' = rtree
    ]_vars

====
